---- MODULE Spec2Model ----
(***************************************************************************)
(* Model of sop_planner.py: the schedule engine calculate_schedule and the *)
(* changeover metrics computed from its two results.                       *)
(*                                                                         *)
(* Column names of the data frames are written in ASCII:                   *)
(*   order_no = 주문번호, color = 강종/색상, qty = 주문량(톤),             *)
(*   width = 폭(mm); task = 작업명, tag = 색상, start = 시작,              *)
(*   end = 종료, detail = 상세.                                            *)
(* The customer column (고객사) only feeds the free-text detail of a       *)
(* production block and is left out of the rows.                           *)
(*                                                                         *)
(* A datetime is a record [s, us]: whole seconds since 2026-01-10 00:00    *)
(* and microseconds in 0..999999, the resolution datetime/timedelta keep.  *)
(* A timedelta is the same record (s may be negative, us never is), which  *)
(* is timedelta's own normal form.                                         *)
(***************************************************************************)
EXTENDS Integers, Sequences, FiniteSets, TLC

VARIABLES
    df_raw,         \* the order table (line 40-43)
    line_speed,     \* slider value (line 23)
    setup_time,     \* number_input value (line 24)
    pc,             \* position of the script
    schedule,       \* calculate_schedule: the working sequence (line 52/55)
    i,              \* calculate_schedule: next row of schedule.iterrows()
    start_time,     \* calculate_schedule: the cursor
    last_color,     \* calculate_schedule: color of the previous row
    schedule_list,  \* calculate_schedule: blocks emitted so far
    df_asis,        \* result of calculate_schedule(df_raw, False)
    df_tobe,        \* result of calculate_schedule(df_raw, True)
    loss_asis,      \* line 113 (read only once pc = "done" without fault)
    loss_tobe,      \* line 114
    time_saved,     \* line 115
    fault           \* exception that ended the script, or "None"

vars == <<df_raw, line_speed, setup_time, pc, schedule, i, start_time,
          last_color, schedule_list, df_asis, df_tobe, loss_asis, loss_tobe,
          time_saved, fault>>

-----------------------------------------------------------------------------
(* Bounds and input sets *)

MaxOrders == 3

Micro == 1000000

Colors == {"Blue", "Red", "White"}
\* tonnage and width of the rows of an uploaded table
Products ==
    { [qty |-> 5, width |-> 900], [qty |-> 30, width |-> 1200] }
LineSpeeds == {11, 20}
SetupTimes == {-30, 0, 60}

None == "None"
ChangeoverTask == "Changeover"
SetupLoss == "Setup (Loss)"

\* Python's str ordering of the color tags, as sort_values compares them.
ColorRank(c) ==
    CASE c = "Blue" -> 1
      [] c = "Red" -> 2
      [] c = "White" -> 3

Row(n, c, q, w) == [order_no |-> n, color |-> c, qty |-> q, width |-> w]

default_data ==
    << Row(101, "White", 100, 1200), Row(102, "Blue", 50, 1000),
       Row(103, "White", 80, 1200),  Row(104, "Red", 40, 900),
       Row(105, "Blue", 60, 1000),   Row(106, "White", 120, 1200),
       Row(107, "Red", 30, 900),     Row(108, "Blue", 50, 1000) >>

\* Tables an uploaded file can hold: 0..MaxOrders rows, unique order numbers.
UploadedFrames ==
    UNION { { [k \in 1..n |-> Row(100 + k, c[k], p[k].qty, p[k].width)] :
                c \in [1..n -> Colors], p \in [1..n -> Products] } :
            n \in 0..MaxOrders }

-----------------------------------------------------------------------------
(* datetime / timedelta arithmetic *)

StartTime == [s |-> 8 * 3600, us |-> 0]

\* timedelta(minutes=m) for an int m
TimedeltaMinutes(m) == [s |-> m * 60, us |-> 0]

\* round-half-even of num/den, den > 0, num >= 0
RoundHalfEven(num, den) ==
    LET fl == num \div den
        rem == num % den
    IN  IF 2 * rem > den \/ (2 * rem = den /\ fl % 2 = 1) THEN fl + 1 ELSE fl

\* Python 2 style floor division of the tonnage by the speed
ProductionDelta_FloorDiv(qty, speed) == TimedeltaMinutes((qty \div speed) * 60)

\* timedelta(minutes=(qty / line_speed) * 60): qty*3600/speed seconds,
\* rounded to the microsecond
ProductionDelta(qty, speed) ==
    LET n == qty * 3600
        sec == n \div speed
        u == RoundHalfEven((n % speed) * Micro, speed)
    IN  IF u = Micro THEN [s |-> sec + 1, us |-> 0] ELSE [s |-> sec, us |-> u]

\* datetime + timedelta
AddTime(t, d) ==
    LET u == t.us + d.us
    IN  IF u >= Micro THEN [s |-> t.s + d.s + 1, us |-> u - Micro]
        ELSE [s |-> t.s + d.s, us |-> u]

TimeLT(a, b) == a.s < b.s \/ (a.s = b.s /\ a.us < b.us)

-----------------------------------------------------------------------------
(* Ordering policy *)

\* key(a) < key(b) under by=[color, width], ascending=[True, False]
KeyLT_WidthFirst(a, b) ==
    a.width > b.width
    \/ (a.width = b.width /\ ColorRank(a.color) < ColorRank(b.color))

KeyLT(a, b) ==
    ColorRank(a.color) < ColorRank(b.color)
    \/ (a.color = b.color /\ a.width > b.width)

InsertAt(s, k, row) ==
    SubSeq(s, 1, k - 1) \o <<row>> \o SubSeq(s, k, Len(s))

\* unstable variant: the row goes before rows of equal key
Insert_BeforeEqual(sorted, row) ==
    LET later == {k \in 1..Len(sorted) : ~KeyLT(sorted[k], row)}
    IN  IF later = {} THEN Append(sorted, row)
        ELSE InsertAt(sorted, CHOOSE k \in later : \A j \in later : k <= j, row)

\* stable insertion: the row goes before the first row of greater key
Insert(sorted, row) ==
    LET later == {k \in 1..Len(sorted) : KeyLT(row, sorted[k])}
    IN  IF later = {} THEN Append(sorted, row)
        ELSE InsertAt(sorted, CHOOSE k \in later : \A j \in later : k <= j, row)

RECURSIVE SortPrefix(_, _)
SortPrefix(df, n) ==
    IF n = 0 THEN <<>> ELSE Insert(SortPrefix(df, n - 1), df[n])

\* the sort left out
SortValues_Copy(df) == df

\* df.sort_values(by=[color, width], ascending=[True, False]) (stable lexsort)
SortValues(df) == SortPrefix(df, Len(df))

-----------------------------------------------------------------------------
(* Loop body of calculate_schedule *)

\* the test without the None guard
IsChangeover_NoGuard(last, color) == color # last

\* line 68
IsChangeover(last, color) == last # None /\ color # last

\* always the default duration
CurrentSetup_Default(is_changeover, setup) == IF is_changeover THEN 60 ELSE 0

\* lines 65-69
CurrentSetup(is_changeover, setup) == IF is_changeover THEN setup ELSE 0

\* the cursor not advanced
AfterChangeover_Stay(t, current_setup) == t

\* line 81
AfterChangeover(t, current_setup) == AddTime(t, TimedeltaMinutes(current_setup))

\* lines 74-80
ChangeoverBlock(last, row, t, current_setup) ==
    [task |-> ChangeoverTask, tag |-> SetupLoss, start |-> t,
     end |-> AddTime(t, TimedeltaMinutes(current_setup)),
     detail |-> <<last, row.color>>]

\* lines 85-95
ProductionBlock(row, t, speed) ==
    [task |-> <<row.order_no, row.color>>, tag |-> row.color, start |-> t,
     end |-> AddTime(t, ProductionDelta(row.qty, speed)),
     detail |-> <<row.qty>>]

\* off by one: the last row is not visited
HasNext_Short(k, sched) == k < Len(sched)

\* line 63: schedule.iterrows() has a row left
HasNext(k, sched) == k <= Len(sched)

-----------------------------------------------------------------------------
(* Metrics *)

IsChangeoverBlock(b) == b.task = ChangeoverTask

\* df[df[task] == 'Changeover'][end].count()
CountChangeover(df) == Cardinality({k \in 1..Len(df) : IsChangeoverBlock(df[k])})

\* lines 113-114
Loss(df, setup) == CountChangeover(df) * setup

-----------------------------------------------------------------------------
(* The script *)

Init ==
    /\ df_raw \in {default_data} \cup UploadedFrames
    /\ line_speed \in LineSpeeds
    /\ setup_time \in SetupTimes
    /\ pc = "asis_call"
    /\ schedule = <<>>
    /\ i = 1
    /\ start_time = StartTime
    /\ last_color = None
    /\ schedule_list = <<>>
    /\ df_asis = <<>>
    /\ df_tobe = <<>>
    /\ loss_asis = 0
    /\ loss_tobe = 0
    /\ time_saved = 0
    /\ fault = None

\* lines 107, 53-61: calculate_schedule(df_raw, is_optimized=False) entered
CallAsIs ==
    /\ pc = "asis_call"
    /\ schedule' = df_raw
    /\ start_time' = StartTime
    /\ schedule_list' = <<>>
    /\ last_color' = None
    /\ i' = 1
    /\ pc' = "asis_loop"
    /\ UNCHANGED <<df_raw, line_speed, setup_time, df_asis, df_tobe,
                   loss_asis, loss_tobe, time_saved, fault>>

\* lines 110, 50-52, 58-61: calculate_schedule(df_raw, is_optimized=True) entered
CallToBe ==
    /\ pc = "tobe_call"
    /\ schedule' = SortValues(df_raw)
    /\ start_time' = StartTime
    /\ schedule_list' = <<>>
    /\ last_color' = None
    /\ i' = 1
    /\ pc' = "tobe_loop"
    /\ UNCHANGED <<df_raw, line_speed, setup_time, df_asis, df_tobe,
                   loss_asis, loss_tobe, time_saved, fault>>

\* lines 63-98: one iteration of the loop
LoopIter ==
    /\ pc \in {"asis_loop", "tobe_loop"}
    /\ HasNext(i, schedule)
    /\ LET row == schedule[i]
           is_changeover == IsChangeover(last_color, row.color)
           current_setup == CurrentSetup(is_changeover, setup_time)
           t == IF is_changeover THEN AfterChangeover(start_time, current_setup)
                ELSE start_time
           prod == ProductionBlock(row, t, line_speed)
       IN  /\ schedule_list' =
                IF is_changeover
                THEN schedule_list
                       \o <<ChangeoverBlock(last_color, row, start_time, current_setup)>>
                       \o <<prod>>
                ELSE Append(schedule_list, prod)
           /\ start_time' = prod.end
           /\ last_color' = row.color
    /\ i' = i + 1
    /\ UNCHANGED <<df_raw, line_speed, setup_time, pc, schedule, df_asis,
                   df_tobe, loss_asis, loss_tobe, time_saved, fault>>

\* line 100, 107: the loop is over, df_asis is bound
ReturnAsIs ==
    /\ pc = "asis_loop"
    /\ ~HasNext(i, schedule)
    /\ df_asis' = schedule_list
    /\ pc' = "tobe_call"
    /\ UNCHANGED <<df_raw, line_speed, setup_time, schedule, i, start_time,
                   last_color, schedule_list, df_tobe, loss_asis, loss_tobe,
                   time_saved, fault>>

\* line 100, 110: the loop is over, df_tobe is bound
ReturnToBe ==
    /\ pc = "tobe_loop"
    /\ ~HasNext(i, schedule)
    /\ df_tobe' = schedule_list
    /\ pc' = "metrics"
    /\ UNCHANGED <<df_raw, line_speed, setup_time, schedule, i, start_time,
                   last_color, schedule_list, df_asis, loss_asis, loss_tobe,
                   time_saved, fault>>

\* pd.DataFrame([]) has no columns: df['task'] raises KeyError
HasColumns(df) == Len(df) > 0

\* lines 113-115 on frames that have the task column
Metrics ==
    /\ pc = "metrics"
    /\ HasColumns(df_asis) /\ HasColumns(df_tobe)
    /\ loss_asis' = Loss(df_asis, setup_time)
    /\ loss_tobe' = Loss(df_tobe, setup_time)
    /\ time_saved' = Loss(df_asis, setup_time) - Loss(df_tobe, setup_time)
    /\ pc' = "done"
    /\ UNCHANGED <<df_raw, line_speed, setup_time, schedule, i, start_time,
                   last_color, schedule_list, df_asis, df_tobe, fault>>

\* line 113 on a frame built from an empty list: KeyError, the script stops
MetricsKeyError ==
    /\ pc = "metrics"
    /\ ~(HasColumns(df_asis) /\ HasColumns(df_tobe))
    /\ fault' = "KeyError"
    /\ pc' = "done"
    /\ UNCHANGED <<df_raw, line_speed, setup_time, schedule, i, start_time,
                   last_color, schedule_list, df_asis, df_tobe, loss_asis,
                   loss_tobe, time_saved>>

Next ==
    \/ CallAsIs
    \/ LoopIter
    \/ ReturnAsIs
    \/ CallToBe
    \/ ReturnToBe
    \/ Metrics
    \/ MetricsKeyError

Spec == Init /\ [][Next]_vars

-----------------------------------------------------------------------------
(* Vocabulary of the properties *)

AllSchedules == {schedule_list, df_asis, df_tobe}

IsProductionBlock(b) == ~IsChangeoverBlock(b)

Productions(bl) == SelectSeq(bl, IsProductionBlock)

ProdTasks(bl) == [k \in 1..Len(Productions(bl)) |-> Productions(bl)[k].task]

Labels(sched) == [k \in 1..Len(sched) |-> <<sched[k].order_no, sched[k].color>>]

ColorsOf(sched) == {sched[k].color : k \in 1..Len(sched)}

Transitions(sched) ==
    Cardinality({k \in 1..(Len(sched) - 1) : sched[k].color # sched[k + 1].color})

\* end - start as a timedelta
Duration(b) ==
    IF b.end.us >= b.start.us
    THEN [s |-> b.end.s - b.start.s, us |-> b.end.us - b.start.us]
    ELSE [s |-> b.end.s - b.start.s - 1, us |-> b.end.us - b.start.us + Micro]

Zero == [s |-> 0, us |-> 0]

RECURSIVE ChangeoverSum(_, _)
ChangeoverSum(bl, n) ==
    IF n = 0 THEN Zero
    ELSE IF IsChangeoverBlock(bl[n])
         THEN AddTime(ChangeoverSum(bl, n - 1), Duration(bl[n]))
         ELSE ChangeoverSum(bl, n - 1)

\* index of the last production block before block k, 0 if there is none
PrevProd(bl, k) ==
    LET before == {j \in 1..(k - 1) : IsProductionBlock(bl[j])}
    IN  IF before = {} THEN 0 ELSE CHOOSE j \in before : \A m \in before : m <= j

AsIsBound == pc \notin {"asis_call", "asis_loop"}
ToBeBound == pc \in {"metrics", "done"}
ToBeEntered == pc \in {"tobe_loop", "metrics", "done"}
Reported == pc = "done" /\ fault = None

-----------------------------------------------------------------------------
(* C1 *)

Contiguous(bl) == \A k \in 1..(Len(bl) - 1) : bl[k].end = bl[k + 1].start

\* C1: every schedule (returned or under construction) is contiguous: each
\* block ends where the next one starts, and the first block starts at the
\* fixed start timestamp; the cursor sits at the end of the last block.
C1_Contiguity ==
    /\ \A bl \in AllSchedules :
          /\ Contiguous(bl)
          /\ Len(bl) > 0 => bl[1].start = StartTime
    /\ pc \in {"asis_loop", "tobe_loop"} /\ Len(schedule_list) > 0
          => schedule_list[Len(schedule_list)].end = start_time

C1_Witness ==
    /\ pc = "done"
    /\ setup_time = 60
    /\ CountChangeover(df_asis) >= 2
    /\ Len(df_tobe) >= 4

(* C2 *)

ChangeoverPlacement(bl) ==
    /\ \A k \in 1..Len(bl) :
          IsProductionBlock(bl[k]) =>
             ((k > 1 /\ IsChangeoverBlock(bl[k - 1]))
                <=> (PrevProd(bl, k) # 0 /\ bl[PrevProd(bl, k)].tag # bl[k].tag))
    /\ Len(bl) > 0 => IsProductionBlock(bl[1]) /\ IsProductionBlock(bl[Len(bl)])
    /\ \A k \in 1..(Len(bl) - 1) :
          ~(IsChangeoverBlock(bl[k]) /\ IsChangeoverBlock(bl[k + 1]))

\* C2: a Changeover block sits right before a Production block exactly when
\* the preceding Production block has another color; no schedule starts or
\* ends with a Changeover, no two Changeovers are adjacent; one order or one
\* color gives no Changeover at all under either policy.
C2_ChangeoverIffColorDiffers ==
    /\ \A bl \in AllSchedules : ChangeoverPlacement(bl)
    /\ Cardinality(ColorsOf(df_raw)) <= 1 =>
          \A bl \in AllSchedules : CountChangeover(bl) = 0

C2_Witness ==
    /\ pc = "done"
    /\ CountChangeover(df_tobe) = 1
    /\ \E k \in 1..(Len(df_tobe) - 1) :
          /\ IsProductionBlock(df_tobe[k]) /\ IsProductionBlock(df_tobe[k + 1])
          /\ df_tobe[k].tag = df_tobe[k + 1].tag

(* C3 *)

\* C3: one Production block per order, in the order of the working sequence:
\* during the loop the Production blocks are exactly the rows visited so far;
\* the submission-order result lists the input orders in input order, the
\* grouped result lists the sorted sequence, no order dropped or duplicated.
C3_OneProductionPerOrder ==
    /\ pc \in {"asis_loop", "tobe_loop"} =>
          /\ i <= Len(schedule) + 1
          /\ ProdTasks(schedule_list) = Labels(SubSeq(schedule, 1, i - 1))
    /\ AsIsBound => ProdTasks(df_asis) = Labels(df_raw)
    /\ ToBeBound =>
          /\ ProdTasks(df_tobe) = Labels(schedule)
          /\ Len(ProdTasks(df_tobe)) = Len(df_raw)
          /\ {ProdTasks(df_tobe)[k] : k \in 1..Len(ProdTasks(df_tobe))}
                = {Labels(df_raw)[k] : k \in 1..Len(df_raw)}

C3_Witness ==
    /\ pc = "done"
    /\ Len(df_raw) = 3
    /\ ProdTasks(df_tobe) # ProdTasks(df_asis)
    /\ Len(df_asis) > 3

(* C4 *)

\* C4: the grouped working sequence is a permutation of the input, sorted by
\* color ascending, then width descending; rows of equal color and width keep
\* their input order (order numbers rise with the input position).
C4_GroupedStableSort ==
    ToBeEntered =>
       /\ Len(schedule) = Len(df_raw)
       /\ {schedule[k] : k \in 1..Len(schedule)} = {df_raw[k] : k \in 1..Len(df_raw)}
       /\ \A a, b \in 1..Len(schedule) :
             a < b =>
                LET x == schedule[a]
                    y == schedule[b]
                IN  \/ ColorRank(x.color) < ColorRank(y.color)
                    \/ x.color = y.color /\ x.width > y.width
                    \/ x.color = y.color /\ x.width = y.width
                         /\ x.order_no < y.order_no

C4_Witness ==
    /\ pc = "tobe_loop"
    /\ schedule # df_raw
    /\ \E a, b \in 1..Len(schedule) :
          /\ a < b
          /\ schedule[a].color = schedule[b].color
          /\ schedule[a].width = schedule[b].width
    /\ \E a, b \in 1..Len(schedule) :
          /\ a < b
          /\ schedule[a].color = schedule[b].color
          /\ schedule[a].width > schedule[b].width
          /\ schedule[a].order_no > schedule[b].order_no

(* C5 *)

\* C5: for a non-empty order list the grouped schedule holds exactly
\* (distinct colors - 1) Changeover blocks; the built-in eight orders give 2,
\* against 7 in submission order.
C5_GroupedChangeoverCount ==
    ToBeBound =>
       /\ Len(df_raw) > 0 =>
             CountChangeover(df_tobe) = Cardinality(ColorsOf(df_raw)) - 1
       /\ df_raw = default_data =>
             CountChangeover(df_tobe) = 2 /\ CountChangeover(df_asis) = 7

C5_Witness ==
    /\ pc = "done"
    /\ df_raw = default_data
    /\ CountChangeover(df_tobe) = 2
    /\ CountChangeover(df_asis) = 7

(* C6 *)

\* C6: the durations of the Changeover blocks of a schedule add up to
\* (color transitions of its working sequence) x setup_time minutes, and the
\* reported totals loss_asis and loss_tobe are those sums.
C6_ChangeoverTotal ==
    /\ AsIsBound =>
          ChangeoverSum(df_asis, Len(df_asis))
             = TimedeltaMinutes(Transitions(df_raw) * setup_time)
    /\ ToBeBound =>
          ChangeoverSum(df_tobe, Len(df_tobe))
             = TimedeltaMinutes(Transitions(schedule) * setup_time)
    /\ Reported =>
          /\ TimedeltaMinutes(loss_asis) = ChangeoverSum(df_asis, Len(df_asis))
          /\ TimedeltaMinutes(loss_tobe) = ChangeoverSum(df_tobe, Len(df_tobe))

C6_Witness ==
    /\ Reported
    /\ loss_asis = 420
    /\ loss_tobe = 120
    /\ line_speed = 11

(* C7 *)

PositiveDuration(b) == TimeLT(b.start, b.end)

\* C7 as stated: with a non-negative setup_time every block, Production or
\* Changeover, ends strictly after it starts.
C7_EveryBlockPositive ==
    setup_time >= 0 =>
       \A bl \in AllSchedules : \A k \in 1..Len(bl) : PositiveDuration(bl[k])

\* C7 amended: every Production block ends strictly after it starts; every
\* Changeover block lasts exactly setup_time minutes, so it ends strictly
\* after it starts when setup_time > 0 and ends where it starts when
\* setup_time = 0.
C7_PositiveUnlessZeroSetup ==
    \A bl \in AllSchedules : \A k \in 1..Len(bl) :
       /\ IsProductionBlock(bl[k]) => PositiveDuration(bl[k])
       /\ IsChangeoverBlock(bl[k]) =>
             /\ Duration(bl[k]) = TimedeltaMinutes(setup_time)
             /\ setup_time > 0 => PositiveDuration(bl[k])
             /\ setup_time = 0 => bl[k].end = bl[k].start

C7_Witness ==
    /\ pc = "done"
    /\ setup_time = 0
    /\ line_speed = 11
    /\ \E k \in 1..Len(df_asis) :
          IsChangeoverBlock(df_asis[k]) /\ df_asis[k].end = df_asis[k].start
    /\ \E k \in 1..Len(df_asis) :
          IsProductionBlock(df_asis[k]) /\ df_asis[k].end.us # 0

(* C8 *)

\* C8: with line_speed <= 0 or setup_time < 0 the engine stops with an
\* InvalidParameter error before any block is emitted: no block is ever
\* appended and no schedule is returned.
C8_InvalidParameterRejected ==
    (line_speed <= 0 \/ setup_time < 0) =>
       /\ \A bl \in AllSchedules : bl = <<>>
       /\ pc \notin {"asis_call", "asis_loop"} => fault = "InvalidParameter"

(* C9 *)

\* C9: with no orders the run raises no fault, both schedules are empty and
\* both changeover totals and the time saved are reported as 0.
C9_EmptyInputReportsZero ==
    Len(df_raw) = 0 =>
       /\ fault = None
       /\ \A bl \in AllSchedules : bl = <<>>
       /\ pc = "done" => loss_asis = 0 /\ loss_tobe = 0 /\ time_saved = 0

(* C10 *)

\* C10: the grouped schedule never holds more Changeover blocks than the
\* submission-order schedule of the same orders, and with setup_time >= 0 the
\* reported time saved is never negative.
C10_GroupingNeverWorse ==
    /\ ToBeBound => CountChangeover(df_tobe) <= CountChangeover(df_asis)
    /\ Reported /\ setup_time >= 0 =>
          /\ time_saved = loss_asis - loss_tobe
          /\ time_saved >= 0

C10_Witness ==
    /\ Reported
    /\ df_raw # default_data
    /\ setup_time = 60
    /\ time_saved = 60
    /\ CountChangeover(df_tobe) = 1

====
